---- MODULE Spec2Model ----
(***************************************************************************)
(* Verification model of the neuraloperator core:                          *)
(*   - neuralop/layers/segment_csr.py : the CSR segment reducer            *)
(*   - neuralop/models/rno.py         : RNO.forward and RNO.predict        *)
(*                                                                         *)
(* Tensors of real numbers are modelled exactly: a scalar is a fraction    *)
(* <<n, d>> in lowest terms with d > 0, extended with the three IEEE       *)
(* special values that a floating-point division by zero produces:         *)
(* <<1, 0>> = +inf, <<-1, 0>> = -inf, <<0, 0>> = nan.                      *)
(***************************************************************************)
EXTENDS Integers, Sequences, FiniteSets, TLC

(***************************************************************************)
(* Bounds of the model.                                                    *)
(***************************************************************************)
MaxLen    == 4      \* longest src (number of rows)
MaxGroups == 3      \* most groups, len(indptr) - 1
MaxCalls  == 2      \* calls of segment_csr on the same src object
MaxLayers == 2      \* largest n_layers of an RNO
MaxSteps  == 5      \* largest num_steps given to RNO.predict
MaxT      == 2      \* most timesteps of an input sequence
Modulus   == 3      \* channel values are the integers modulo Modulus
NPts      == 2      \* grid points of a function sample of the UQNO pipeline
MaxAlphaPct == 99   \* largest alpha given to get_coeff_quantile_idx, in percent

MaxSamples == 3     \* most samples a normalizer is built from

(***************************************************************************)
(* Scalars.                                                                *)
(***************************************************************************)
Abs(n) == IF n < 0 THEN -n ELSE n

Sgn(n) == IF n > 0 THEN 1 ELSE IF n < 0 THEN -1 ELSE 0

RECURSIVE Gcd(_, _)
Gcd(a, b) == IF b = 0 THEN a ELSE Gcd(b, a % b)

\* the fraction n/d (d > 0) in lowest terms
Frac(n, d) == LET g == Gcd(Abs(n), d) IN <<n \div g, d \div g>>

Num(k) == <<k, 1>>

IsNan(x) == x = <<0, 0>>

IsFinite(x) == x[2] > 0

\* torch float addition: nan is absorbing, inf + -inf = nan, inf + finite = inf
ScalarAdd(x, y) ==
    IF IsNan(x) \/ IsNan(y) THEN <<0, 0>>
    ELSE IF ~IsFinite(x) /\ ~IsFinite(y) THEN (IF x = y THEN x ELSE <<0, 0>>)
    ELSE IF ~IsFinite(x) THEN x
    ELSE IF ~IsFinite(y) THEN y
    ELSE Frac(x[1] * y[2] + y[1] * x[2], x[2] * y[2])

\* torch float division by a non-negative integer count k: x / 0 is +-inf, or nan for x = 0
ScalarDiv(x, k) ==
    IF ~IsFinite(x) THEN x
    ELSE IF k = 0 THEN <<Sgn(x[1]), 0>>
    ELSE Frac(x[1], x[2] * k)

(***************************************************************************)
(* Rows of src: feature vectors of two components, combined elementwise.   *)
(***************************************************************************)
RowAdd(r, q) == [c \in DOMAIN r |-> ScalarAdd(r[c], q[c])]

RowDiv(r, k) == [c \in DOMAIN r |-> ScalarDiv(r[c], k)]

ZeroRow == <<Num(0), Num(0)>>

\* the rows the inputs are drawn from
Rows == { <<Num(1), Num(1)>>, <<Num(0), Num(2)>> }

(***************************************************************************)
(* segment_csr (segment_csr.py:8-47).  src is a sequence of rows; indptr   *)
(* holds 0-based offsets, so row k of the tensor is src[k + 1] here.        *)
(* The function result is a record:                                        *)
(*   err     "none" or the exception raised                                *)
(*   src     the contents of the caller's src tensor when the call ends    *)
(*   out     the returned tensor (<<>> when an exception is raised)        *)
(*   touched the 0-based rows of src that were read or written             *)
(*   zerodiv TRUE when a division by a group length of 0 was performed     *)
(***************************************************************************)
\* line 30: n_nbrs = indptr[1:] - indptr[:-1]
n_nbrs(indptr) == [i \in 1..(Len(indptr) - 1) |-> indptr[i + 1] - indptr[i]]

\* line 34: out = torch.zeros(output_shape), output_shape[0] = indptr.shape[0] - 1
zeros(indptr) == [i \in 1..(Len(indptr) - 1) |-> ZeroRow]

\* accumulate with the last row of the group left out (range(1, n - 1))
RECURSIVE accumulate_short(_, _, _, _)
accumulate_short(s, start, j, n) ==
    IF j >= n - 1 THEN s
    ELSE accumulate_short([s EXCEPT ![start + 1] = RowAdd(s[start + 1], s[start + j + 1])],
                          start, j + 1, n)

\* lines 39-41: accum = src[start] is a view of row `start` of src (basic
\* indexing), so every accum += src[start + j] writes into src itself.
RECURSIVE accumulate(_, _, _, _)
accumulate(s, start, j, n) ==
    IF j >= n THEN s
    ELSE accumulate([s EXCEPT ![start + 1] = RowAdd(s[start + 1], s[start + j + 1])],
                    start, j + 1, n)

\* lines 42-43: accum /= n_nbrs[i], again in place on the view
mean_divide(s, start, n, reduce) ==
    IF reduce = "mean" THEN [s EXCEPT ![start + 1] = RowDiv(s[start + 1], n)] ELSE s

\* lines 36-45: the loop over the groups, from group i (1-based) on
RECURSIVE group_loop(_, _, _, _)
group_loop(st, indptr, reduce, i) ==
    IF i > Len(indptr) - 1 THEN st
    ELSE LET start == indptr[i]
             n     == n_nbrs(indptr)[i]
         IN  IF start = Len(st.src) THEN st                       \* line 37-38: break
             ELSE LET s1 == accumulate(st.src, start, 1, n)
                      s2 == mean_divide(s1, start, n, reduce)
                  IN  group_loop([err     |-> "none",
                                  src     |-> s2,
                                  out     |-> [st.out EXCEPT ![i] = s2[start + 1]],
                                  touched |-> st.touched \cup {start}
                                                 \cup {start + j : j \in 1..(n - 1)},
                                  zerodiv |-> st.zerodiv \/ (reduce = "mean" /\ n = 0)],
                                 indptr, reduce, i + 1)

\* segment_csr with the mode validated after the loop instead of before it
segment_csr_late_check(src, indptr, reduce) ==
    LET st == group_loop([err |-> "none", src |-> src, out |-> zeros(indptr),
                          touched |-> {}, zerodiv |-> FALSE], indptr, "sum", 1)
    IN  IF reduce \notin {"mean", "sum"} THEN [st EXCEPT !.err = "ValueError", !.out = <<>>]
        ELSE st

\* lines 27-28: the mode is validated first
segment_csr(src, indptr, reduce) ==
    IF reduce \notin {"mean", "sum"}
    THEN [err |-> "ValueError", src |-> src, out |-> <<>>, touched |-> {},
          zerodiv |-> FALSE]
    ELSE group_loop([err |-> "none", src |-> src, out |-> zeros(indptr), touched |-> {},
                     zerodiv |-> FALSE],
                    indptr, reduce, 1)

(***************************************************************************)
(* RNO (rno.py).  A tensor (batch, timesteps, points, channels) is         *)
(* modelled for one batch entry and one channel: a field is a sequence of  *)
(* channel values, one per grid point, and a tensor with a time axis is a  *)
(* sequence of fields.  Channel values are integers modulo Modulus.        *)
(* The instance is a record of the attributes __init__ assigns (lines      *)
(* 64-88): n_layers, residual and domain_padding (0 for None, else the     *)
(* number of points the padder appends).                                   *)
(* An absent hidden field (None) is the field of no points, <<>>.  The     *)
(* init_hidden_states argument is [none |-> TRUE] for None, else           *)
(* [none |-> FALSE, list |-> the list].                                    *)
(***************************************************************************)
None == <<>>

NoList == [none |-> TRUE, list |-> <<>>]

List(l) == [none |-> FALSE, list |-> l]

FieldAdd(f, g) == [s \in DOMAIN f |-> (f[s] + g[s]) % Modulus]

\* line 81: self.lifting = nn.Linear(in_channels, width), applied at line 99
lifting(xs) == [t \in DOMAIN xs |-> [s \in DOMAIN xs[t] |-> (2 * xs[t][s] + 1) % Modulus]]

\* line 88: self.projection = nn.Linear(width, out_channels), applied at line 127
projection(h) == [s \in DOMAIN h |-> (h[s] + 2) % Modulus]

\* DomainPadding.pad in 'one-sided' mode: p zero points appended to every field
pad(xs, p) == [t \in DOMAIN xs |-> xs[t] \o [s \in 1..p |-> 0]]

\* DomainPadding.unpad in 'one-sided' mode: the p trailing points removed
unpad(xs, p) == [t \in DOMAIN xs |-> SubSeq(xs[t], 1, Len(xs[t]) - p)]

\* the recurrent cell of layer i (0-based): the new hidden field from the input
\* field and the old hidden field, mixing neighbouring points cyclically
cell(i, xt, h) ==
    [s \in DOMAIN xt |-> (xt[s] + 2 * h[s] + h[(s % Len(xt)) + 1] + i + 1) % Modulus]

\* the hidden field after the first t timesteps of xs; an absent h starts at zero
RECURSIVE hidden_after(_, _, _, _)
hidden_after(i, xs, h, t) ==
    IF t = 0 THEN (IF h = None THEN [s \in DOMAIN xs[1] |-> 0] ELSE h)
    ELSE cell(i, xs[t], hidden_after(i, xs, h, t - 1))

\* RNO_layer.forward: every hidden field when return_sequences, else the last one
RNO_layer(i, xs, h, return_sequences) ==
    IF return_sequences THEN [t \in DOMAIN xs |-> hidden_after(i, xs, h, t)]
    ELSE hidden_after(i, xs, h, Len(xs))

\* the hidden state of a layer taken at the first timestep
final_hidden_first(self, i, new_x) ==
    IF i < self.n_layers - 1 THEN new_x[1] ELSE new_x

\* lines 113 and 116: x[:, -1] for the layers that return sequences, x itself
\* for the last layer, whose output is the final state alone
final_hidden(self, i, new_x) ==
    IF i < self.n_layers - 1 THEN new_x[Len(new_x)] ELSE new_x

\* lines 107-117, from layer i (0-based) on.  st.x is the running field,
\* st.final_hidden_states the list built so far, st.layers what every layer
\* applied so far was given and produced.
RECURSIVE layer_loop(_, _, _, _)
layer_loop(self, st, init_hidden_states, i) ==
    IF i >= self.n_layers THEN st
    ELSE IF i >= Len(init_hidden_states)                  \* init_hidden_states[i]
    THEN [st EXCEPT !.err = "IndexError"]
    ELSE LET pred_x == RNO_layer(i, st.x, init_hidden_states[i + 1],
                                 i < self.n_layers - 1)
             new_x  == IF i < self.n_layers - 1
                       THEN (IF self.residual
                             THEN [t \in DOMAIN st.x |-> FieldAdd(st.x[t], pred_x[t])]
                             ELSE pred_x)
                       ELSE pred_x
             hid    == final_hidden(self, i, new_x)
         IN  layer_loop(self,
                        [err |-> "none", x |-> new_x,
                         final_hidden_states |-> Append(st.final_hidden_states, hid),
                         ran |-> Append(st.ran, i),
                         layers |-> Append(st.layers,
                                           [i |-> i, x_before |-> st.x,
                                            h_in |-> init_hidden_states[i + 1],
                                            pred_x |-> pred_x, x_after |-> new_x])],
                        init_hidden_states, i + 1)

\* lines 103-104 with the test of self.domain_padding left out
pad_if_configured_always(self, x1) ==
    [x |-> pad(x1, self.domain_padding), events |-> <<"pad">>]

\* lines 103-104: if self.domain_padding: x = self.domain_padding.pad(x)
pad_if_configured(self, x1) ==
    IF self.domain_padding # 0
    THEN [x |-> pad(x1, self.domain_padding), events |-> <<"pad">>]
    ELSE [x |-> x1, events |-> <<>>]

\* lines 120-123: unsqueeze(1), unpad, [:, 0] on the last hidden state
unpad_if_configured(self, h) ==
    IF self.domain_padding # 0
    THEN [h |-> unpad(<<h>>, self.domain_padding)[1],
          events |-> <<"unsqueeze", "unpad", "squeeze">>]
    ELSE [h |-> h, events |-> <<>>]

\* RNO.forward, lines 90-129.  The result is a record: err ("none" or the
\* exception raised), pred and states (the pair returned), ran (the layers
\* that were applied, in order), layers (what each was given and produced),
\* events (the steps taken, in order), padded (the field given to layer 0)
\* and h (the field given to the projection).
forward(self, xin, init_hidden_states) ==
    LET hs == IF init_hidden_states.none                  \* lines 96-97
              THEN [i \in 1..self.n_layers |-> None]
              ELSE init_hidden_states.list
        x1 == lifting(xin)
        x2 == pad_if_configured(self, x1)
        st == layer_loop(self, [err |-> "none", x |-> x2.x, final_hidden_states |-> <<>>,
                                ran |-> <<>>, layers |-> <<>>], hs, 0)
        ev == <<"lifting">> \o x2.events \o [k \in 1..Len(st.ran) |-> "layer"]
    IN  IF st.err # "none"
        THEN [err |-> st.err, pred |-> None, states |-> None, ran |-> st.ran,
              layers |-> st.layers, events |-> ev, padded |-> x2.x, h |-> None]
        ELSE LET h  == st.final_hidden_states[Len(st.final_hidden_states)]
                 h1 == unpad_if_configured(self, h)
             IN  [err |-> "none", pred |-> projection(h1.h),
                  states |-> st.final_hidden_states, ran |-> st.ran,
                  layers |-> st.layers,
                  events |-> ev \o h1.events \o <<"projection">>,
                  padded |-> x2.x, h |-> h1.h]

\* line 140: torch.stack(output, dim=1) needs at least one tensor
stack(outs) == IF outs = <<>> THEN [err |-> "RuntimeError", value |-> None]
               ELSE [err |-> "none", value |-> outs]

\* line 138: x = pred.reshape((pred.shape[0], 1, *pred.shape[1:]))
reshape(pred) == <<pred>>

(***************************************************************************)
(* DomainPadding (neuralop/layers/padding.py), over fields with one to     *)
(* three spatial axes.  A field is [shape, data]: shape the sequence of    *)
(* axis sizes, data a function from the index tuples (1-based) to values.  *)
(* The padder is [mode, frac, cache]: mode 'symmetric' or 'one-sided',     *)
(* frac the fractional pad <<numerator, denominator>>, cache the pad       *)
(* amounts of the last pad call with the shape they were computed for      *)
(* (shape <<>> while nothing is cached).                                   *)
(***************************************************************************)
MaxOf(S) == CHOOSE m \in S : \A k \in S : k <= m

IndexTuples(shape) ==
    { idx \in [1..Len(shape) -> 1..MaxOf({shape[k] : k \in 1..Len(shape)})] :
        \A k \in 1..Len(shape) : idx[k] <= shape[k] }

\* round(n / d) for n >= 0, d > 0, halves going to the even neighbour
round(n, d) ==
    LET q == n \div d
        r == n % d
    IN  IF 2 * r < d THEN q
        ELSE IF 2 * r > d THEN q + 1
        ELSE IF q % 2 = 0 THEN q ELSE q + 1

\* the pad amount of every axis: round(fractional_pad * axis_size)
pad_amounts(frac, shape) == [k \in 1..Len(shape) |-> round(frac[1] * shape[k], frac[2])]

\* where the field begins inside the padded field, on an axis padded by p
pad_offset(mode, p) == IF mode = "symmetric" THEN p ELSE 0

\* pad with the growth of 'symmetric' mode applied in every mode
pad_growth_both(mode, p) == 2 * p

\* the growth of an axis padded by p
pad_growth(mode, p) == IF mode = "symmetric" THEN 2 * p ELSE p

padded_shape(mode, pads, shape) ==
    [k \in 1..Len(shape) |-> shape[k] + pad_growth(mode, pads[k])]

\* DomainPadding.pad: zeros around the field (symmetric) or after it (one-sided)
DomainPadding_pad(self, f) ==
    LET pads  == pad_amounts(self.frac, f.shape)
        shape == padded_shape(self.mode, pads, f.shape)
        src_of(idx) == [k \in 1..Len(shape) |-> idx[k] - pad_offset(self.mode, pads[k])]
    IN  [self   |-> [self EXCEPT !.cache = [shape |-> f.shape, pads |-> pads]],
         padded |-> [shape |-> shape,
                     data  |-> [idx \in IndexTuples(shape) |->
                                  IF src_of(idx) \in IndexTuples(f.shape)
                                  THEN f.data[src_of(idx)] ELSE 0]]]

\* the crop of unpad taken one index too far on every padded axis
unpad_offset_late(mode, p) == IF p > 0 THEN pad_offset(mode, p) + 1 ELSE 0

\* where unpad's crop begins on an axis padded by p
unpad_offset(mode, p) == pad_offset(mode, p)

\* DomainPadding.unpad: the cached pad amounts removed again; ShapeMismatch
\* when the tensor's shape is not the cached shape padded
DomainPadding_unpad(self, g) ==
    LET pads == self.cache.pads
    IN  IF \/ Len(self.cache.shape) # Len(g.shape)
           \/ padded_shape(self.mode, pads, self.cache.shape) # g.shape
        THEN [err |-> "ShapeMismatch", field |-> [shape |-> <<>>, data |-> <<>>]]
        ELSE [err |-> "none",
              field |-> [shape |-> self.cache.shape,
                         data  |-> [idx \in IndexTuples(self.cache.shape) |->
                                      g.data[[k \in 1..Len(g.shape) |->
                                               idx[k] + unpad_offset(self.mode, pads[k])]]]]]

(***************************************************************************)
(* get_coeff_quantile_idx (train_uqno_darcy.py:454-479).  Real numbers are *)
(* fixed-point integers in units of 1/Scale, every operation rounding      *)
(* towards minus infinity, so that each operation is monotone as its       *)
(* floating-point original is.  alpha and delta are given in percent.      *)
(***************************************************************************)
Scale == 100 * 100

FromPct(a) == a * (Scale \div 100)

\* ceil(a / b) for b > 0
CeilDiv(a, b) == -((-a) \div b)

\* np.sqrt: the largest r in lo..hi with r * r <= v
RECURSIVE isqrt(_, _, _)
isqrt(v, lo, hi) ==
    IF lo >= hi THEN lo
    ELSE LET mid == (lo + hi + 1) \div 2
         IN  IF mid * mid <= v THEN isqrt(v, mid, hi) ELSE isqrt(v, lo, mid - 1)

\* -np.log(delta), for the deltas of the calibration loop (line 549) and 0.5
neg_log(delta_pct) ==
    CASE delta_pct = 2  -> 39120
      [] delta_pct = 5  -> 29957
      [] delta_pct = 10 -> 23026
      [] delta_pct = 50 -> 6931
      [] delta_pct = 90 -> 1054

\* exp(r / Scale) for 0 <= r <= Scale, by its series up to the term k
RECURSIVE exp_series(_, _, _)
exp_series(r, term, k) ==
    IF term = 0 THEN 0
    ELSE term + exp_series(r, (term * r) \div (Scale * k), k + 1)

\* np.exp(-y / Scale) for y >= 0: exp(-1) for every whole unit of y, and the
\* reciprocal of the series for the rest
RECURSIVE exp_neg(_)
exp_neg(y) ==
    IF y >= 12 * Scale THEN 0
    ELSE IF y >= Scale THEN (exp_neg(y - Scale) * 3679) \div Scale
    ELSE (Scale * Scale) \div exp_series(y, Scale, 1)

\* line 476: the magnitude 2*n_gridpts*t*t of the argument of np.exp, rounded
\* once; from 12 on the exponential is below the resolution and only the
\* threshold is kept
exponent(n_gridpts, t) ==
    IF n_gridpts * ((t * t) \div Scale) >= 6 * Scale + n_gridpts THEN 12 * Scale
    ELSE (2 * n_gridpts * t * t) \div Scale

\* line 467: lb = np.sqrt(-np.log(delta)/2/n_gridpts)
lower_bound(delta_pct, n_gridpts) ==
    isqrt((neg_log(delta_pct) * Scale) \div (2 * n_gridpts), 0, 2 * Scale)

\* line 468 with the lower bound not added back
tolerance_third(alpha_pct, delta_pct, n_gridpts) ==
    LET lb == lower_bound(delta_pct, n_gridpts)
    IN  (FromPct(alpha_pct) - lb) \div 3

\* line 468: t = (alpha-lb)/3+lb
tolerance(alpha_pct, delta_pct, n_gridpts) ==
    LET lb == lower_bound(delta_pct, n_gridpts)
    IN  ((FromPct(alpha_pct) - lb) \div 3) + lb

\* the function with line 471 taken as percentile = t - alpha
get_coeff_quantile_idx_flipped(alpha_pct, delta_pct, n_samples, n_gridpts) ==
    LET t          == tolerance(alpha_pct, delta_pct, n_gridpts)
        percentile == t - FromPct(alpha_pct)
        domain_idx == CeilDiv(percentile * n_gridpts, Scale)
        e          == exp_neg(exponent(n_gridpts, t))
        fp_num     == CeilDiv((n_samples + 1) * (FromPct(delta_pct) - e), Scale)
    IN  [err |-> "none", domain_idx |-> domain_idx,
         function_idx |-> CeilDiv(fp_num * n_samples, n_samples),
         lb |-> lower_bound(delta_pct, n_gridpts), t |-> t, percentile |-> percentile]

\* lines 467-479.  function_percentile is the fraction fp_num / n_samples.
get_coeff_quantile_idx(alpha_pct, delta_pct, n_samples, n_gridpts) ==
    LET t          == tolerance(alpha_pct, delta_pct, n_gridpts)
        percentile == FromPct(alpha_pct) - t                                \* line 471
        domain_idx == CeilDiv(percentile * n_gridpts, Scale)                \* line 472
        e          == exp_neg(exponent(n_gridpts, t))
        fp_num     == CeilDiv((n_samples + 1) * (FromPct(delta_pct) - e), Scale)  \* line 476
    IN  [err |-> "none", domain_idx |-> domain_idx,
         function_idx |-> CeilDiv(fp_num * n_samples, n_samples),          \* line 477
         lb |-> lower_bound(delta_pct, n_gridpts), t |-> t, percentile |-> percentile]

(***************************************************************************)
(* UQNODataProcessor (train_uqno_darcy.py:253-341).  A field is a sequence *)
(* of NPts scalars, a sample a function from its keys to fields, and the   *)
(* processor a record [base_train, scale_factor]: the train attribute of   *)
(* its base data processor and its own scale factor, [set, value].         *)
(***************************************************************************)
ScalarNeg(v) == <<-v[1], v[2]>>

ScalarSub(v, w) == ScalarAdd(v, ScalarNeg(w))

ScalarAbs(v) == <<Abs(v[1]), v[2]>>

\* torch float multiplication: nan is absorbing, 0 * inf = nan
ScalarMul(v, w) ==
    IF IsNan(v) \/ IsNan(w) THEN <<0, 0>>
    ELSE IF ~IsFinite(v) \/ ~IsFinite(w)
         THEN (IF v[1] = 0 \/ w[1] = 0 THEN <<0, 0>> ELSE <<Sgn(v[1]) * Sgn(w[1]), 0>>)
    ELSE Frac(v[1] * w[1], v[2] * w[2])

\* torch float division: v / 0 is +-inf, or nan for v = 0 (a zero is +0 here)
true_divide(v, w) ==
    IF IsNan(v) \/ IsNan(w) THEN <<0, 0>>
    ELSE IF ~IsFinite(v) THEN (IF ~IsFinite(w) THEN <<0, 0>>
                               ELSE <<v[1] * (IF w[1] < 0 THEN -1 ELSE 1), 0>>)
    ELSE IF ~IsFinite(w) THEN Num(0)
    ELSE IF w[1] = 0 THEN <<Sgn(v[1]), 0>>
    ELSE Frac(v[1] * w[2] * Sgn(w[1]), v[2] * Abs(w[1]))

\* torch float comparison v < w: false when either side is nan
ScalarLess(v, w) ==
    IF IsNan(v) \/ IsNan(w) THEN FALSE
    ELSE IF ~IsFinite(v) /\ ~IsFinite(w) THEN v[1] < w[1]
    ELSE v[1] * w[2] < w[1] * v[2]

\* the base processor's out_normalizer.inverse_transform: v * std + mean
out_normalizer_inverse_transform(f) ==
    [p \in DOMAIN f |-> ScalarAdd(ScalarMul(f[p], Num(2)), Num(1))]

\* line 314: residual_normalizer.inverse_transform, a normalizer of mean 0
residual_normalizer_inverse_transform(f) ==
    [p \in DOMAIN f |-> ScalarMul(f[p], Num(2))]

\* line 318: base_data_processor.postprocess: in evaluation mode the output
\* and the ground truth of the sample are unnormalized, in training mode
\* both are handed back as they are
base_postprocess(train, output, sample) ==
    IF train THEN [output |-> output, sample |-> sample]
    ELSE [output |-> out_normalizer_inverse_transform(output),
          sample |-> [sample EXCEPT !["y"] = out_normalizer_inverse_transform(sample["y"])]]

\* lines 293-294
train(self) == [self EXCEPT !.base_train = TRUE]

\* lines 296-297
eval(self) == [self EXCEPT !.base_train = FALSE]

\* set_scale_factor multiplying the new factor into the one in force
set_scale_factor_product(self, factor) ==
    [self EXCEPT !.scale_factor =
        [set   |-> TRUE,
         value |-> IF self.scale_factor.set
                   THEN ScalarMul(self.scale_factor.value, factor) ELSE factor]]

\* lines 280-281
set_scale_factor(self, factor) ==
    [self EXCEPT !.scale_factor = [set |-> TRUE, value |-> factor]]

\* postprocess without its line 309
force_eval_skipped(self) == self

\* line 309: self.base_data_processor.train = False
force_eval(self) == [self EXCEPT !.base_train = FALSE]

\* the residual taken as g_hat - g_true
true_residual_swapped(g_true, g_hat) ==
    [p \in DOMAIN g_true |-> ScalarSub(g_hat[p], g_true[p])]

\* line 323: g_true - g_hat
true_residual(g_true, g_hat) ==
    [p \in DOMAIN g_true |-> ScalarSub(g_true[p], g_hat[p])]

\* line 328: sample.pop('x')
pop(sample, key) == [k \in (DOMAIN sample) \ {key} |-> sample[k]]

\* the scale factor multiplied in a second time
apply_scale_factor_twice(self, pred_uncertainty) ==
    IF self.scale_factor.set
    THEN [p \in DOMAIN pred_uncertainty |->
            ScalarMul(ScalarMul(pred_uncertainty[p], self.scale_factor.value),
                      self.scale_factor.value)]
    ELSE pred_uncertainty

\* lines 330-331
apply_scale_factor(self, pred_uncertainty) ==
    IF self.scale_factor.set
    THEN [p \in DOMAIN pred_uncertainty |->
            ScalarMul(pred_uncertainty[p], self.scale_factor.value)]
    ELSE pred_uncertainty

\* lines 305-332.  out is the pair <<g_hat, pred_uncertainty>> of the UQNO.
\* The result holds the processor after the call, the returned pair, and the
\* base processor's mode and returned sample at line 318.
postprocess(self, out, sample) ==
    LET self1  == force_eval(self)                                            \* line 309
        unc    == residual_normalizer_inverse_transform(out[2])               \* line 314
        base   == base_postprocess(self1.base_train, out[1], sample)          \* line 318
        g_true == base.sample["y"]                                            \* line 320
        resid  == [base.sample EXCEPT !["y"] = true_residual(g_true, base.output)]
    IN  [self             |-> self1,
         pred_uncertainty |-> apply_scale_factor(self1, unc),
         sample           |-> pop(resid, "x"),
         denorm_train     |-> self1.base_train,
         base_sample      |-> base.sample]

(***************************************************************************)
(* Ratio collection (lines 487-500) and eval_coverage_bandwidth (505-542). *)
(* A data set is a sequence of items [sample, out]: the preprocessed       *)
(* sample of the loader and what the UQNO returns for it.                  *)
(***************************************************************************)
\* line 497: ratio = torch.abs(sample['y'])/out
ratio(y, out) == [p \in DOMAIN y |-> true_divide(ScalarAbs(y[p]), out[p])]

\* lines 493-499, from item i on
RECURSIVE collect_loop(_, _, _, _)
collect_loop(self, calib, i, val_ratio_list) ==
    IF i > Len(calib) THEN [self |-> self, val_ratios |-> val_ratio_list]
    ELSE LET post == postprocess(self, calib[i].out, calib[i].sample)
         IN  collect_loop(post.self, calib, i + 1,
                          Append(val_ratio_list,
                                 ratio(post.sample["y"], post.pred_uncertainty)))

RECURSIVE FieldSum(_, _)
FieldSum(f, n) == IF n = 0 THEN Num(0) ELSE ScalarAdd(FieldSum(f, n - 1), f[n])

\* torch.mean of a non-empty field
mean(f) == ScalarDiv(FieldSum(f, Len(f)), Len(f))

\* line 523 with <= in the place of <
in_pred_nonstrict(pointwise_true_err, uncertainty_pred) ==
    [p \in DOMAIN pointwise_true_err |->
        IF ~ScalarLess(ScalarAbs(uncertainty_pred[p]), ScalarAbs(pointwise_true_err[p]))
        THEN Num(1) ELSE Num(0)]

\* line 523: (torch.abs(pointwise_true_err) < torch.abs(uncertainty_pred)).float()
in_pred(pointwise_true_err, uncertainty_pred) ==
    [p \in DOMAIN pointwise_true_err |->
        IF ScalarLess(ScalarAbs(pointwise_true_err[p]), ScalarAbs(uncertainty_pred[p]))
        THEN Num(1) ELSE Num(0)]

\* line 528: torch.mean(in_pred_flattened,dim=1) >= 1-alpha
instancewise(in_pred_flattened, alpha) ==
    IF ScalarLess(mean(in_pred_flattened), ScalarSub(Num(1), alpha)) THEN Num(0) ELSE Num(1)

\* lines 516-529, from item i on
RECURSIVE coverage_loop(_, _, _, _, _, _)
coverage_loop(self, test, alpha, i, in_pred_list, avg_interval_list) ==
    IF i > Len(test)
    THEN [self |-> self, in_pred_list |-> in_pred_list,
          avg_interval_list |-> avg_interval_list]
    ELSE LET post == postprocess(self, test[i].out, test[i].sample)
             unc  == post.pred_uncertainty
             hit  == in_pred(post.sample["y"], unc)
         IN  coverage_loop(post.self, test, alpha, i + 1,
                           Append(in_pred_list, instancewise(hit, alpha)),
                           Append(avg_interval_list,
                                  mean([p \in DOMAIN unc |-> ScalarAbs(unc[p])])))

\* the routine with the processor put back as it was found
eval_coverage_bandwidth_restoring(self, test, alpha) ==
    LET done == coverage_loop(self, test, alpha, 1, <<>>, <<>>)
    IN  [self               |-> self,
         mean_interval      |-> mean(done.avg_interval_list),
         in_pred_percentage |-> mean(done.in_pred_list)]

\* lines 505-542, for a non-empty test set
eval_coverage_bandwidth(self, test, alpha) ==
    LET done == coverage_loop(self, test, alpha, 1, <<>>, <<>>)
    IN  [self               |-> done.self,
         mean_interval      |-> mean(done.avg_interval_list),                \* line 534
         in_pred_percentage |-> mean(done.in_pred_list)]                     \* line 535

(***************************************************************************)
(* The body of the calibration loop (lines 550-562).  val_ratios is a      *)
(* sequence of fields, one per calibration function.                       *)
(***************************************************************************)
\* the order torch.topk sorts by: nan above every number
TopLess(v, w) ==
    IF IsNan(w) THEN ~IsNan(v)
    ELSE IF IsNan(v) THEN FALSE
    ELSE ScalarLess(v, w)

\* torch.topk(f, k).values[-1]: the last of the k largest entries of f
topk_last(f, k) ==
    IF k < 0 \/ k > Len(f) THEN [err |-> "RuntimeError", value |-> Num(0)]
    ELSE IF k = 0 THEN [err |-> "IndexError", value |-> Num(0)]
    ELSE [err   |-> "none",
          value |-> f[CHOOSE i \in DOMAIN f :
                         /\ Cardinality({j \in DOMAIN f : TopLess(f[i], f[j])}) < k
                         /\ k <= Cardinality({j \in DOMAIN f : ~TopLess(f[j], f[i])})]]

\* lines 551-558: the indices, the two selections and set_scale_factor
calibrate(self, ratios, alpha_pct, delta_pct) ==
    LET idx == get_coeff_quantile_idx(alpha_pct, delta_pct, Len(ratios), NPts)  \* line 552
        row == [i \in DOMAIN ratios |-> topk_last(ratios[i], idx.domain_idx + 1)]
        val_ratios_pointwise_quantile == [i \in DOMAIN ratios |-> row[i].value]  \* line 554
        top == topk_last(val_ratios_pointwise_quantile, idx.function_idx + 1)
        uncertainty_scaling_factor == ScalarAbs(top.value)                       \* line 555
        failed == [err |-> "none", idx |-> idx, quantiles |-> <<>>,
                   factor |-> Num(0), self |-> self]
    IN  IF row[1].err # "none" THEN [failed EXCEPT !.err = row[1].err]
        ELSE IF top.err # "none"
             THEN [failed EXCEPT !.err = top.err,
                                 !.quantiles = val_ratios_pointwise_quantile]
        ELSE [err       |-> "none",
              idx       |-> idx,
              quantiles |-> val_ratios_pointwise_quantile,
              factor    |-> uncertainty_scaling_factor,
              self      |-> set_scale_factor(self, uncertainty_scaling_factor)]  \* line 558

(***************************************************************************)
(* UnitGaussianNormalizer (utils.py:8-85).  The caller's samples are the    *)
(* cells of a store, each a scalar tensor; a generator yields views of the *)
(* cells an order names, one after the other, and an in-place operation on *)
(* a view writes the cell.                                                 *)
(***************************************************************************)
Root == 10

\* torch.sqrt, to the resolution 1/Root: nan below zero
sqrt(v) ==
    IF IsNan(v) THEN <<0, 0>>
    ELSE IF ~IsFinite(v) THEN (IF v[1] > 0 THEN v ELSE <<0, 0>>)
    ELSE IF v[1] < 0 THEN <<0, 0>>
    ELSE Frac(isqrt(v[1] * v[2] * Root * Root, 0, (v[1] * v[2] + 1) * Root), v[2] * Root)

\* the tensor the samples of the generator make when they are stacked
samples_of(mem, order) == [i \in DOMAIN order |-> mem[order[i]]]

RECURSIVE Sum(_, _)
Sum(f, i) == IF i = 0 THEN Num(0) ELSE ScalarAdd(Sum(f, i - 1), f[i])

\* lines 39-42: torch.mean and the unbiased torch.std over axis 0
compute_statistics_tensor(xs) ==
    LET count == Len(xs)
        mu    == ScalarDiv(Sum(xs, count), count)
        dev   == [i \in DOMAIN xs |-> ScalarMul(ScalarSub(xs[i], mu), ScalarSub(xs[i], mu))]
    IN  [count |-> count, mean |-> mu,
         std |-> sqrt(ScalarDiv(Sum(dev, count), count - 1))]

\* lines 47-50: the loop from the item i on.  total_sum is the first item
\* itself (line 44), so total_sum += item writes the cell `first`, and
\* item**2 is read after that write.
RECURSIVE stream_loop(_, _, _, _)
stream_loop(st, order, first, i) ==
    IF i > Len(order) THEN st
    ELSE LET item == order[i]
             mem1 == [st.mem EXCEPT ![first] = ScalarAdd(st.mem[first], st.mem[item])]
         IN  stream_loop([mem              |-> mem1,
                         total_sum_square |-> ScalarAdd(st.total_sum_square,
                                                        ScalarMul(mem1[item], mem1[item])),
                         count            |-> st.count + 1],
                        order, first, i + 1)

\* lines 43-55: the single pass over a generator
compute_statistics_generator(mem, order) ==
    LET first     == order[1]                                              \* line 43
        st        == stream_loop([mem |-> mem,
                                 total_sum_square |-> ScalarMul(mem[first], mem[first]),
                                 count |-> 1], order, first, 2)
        total_sum == st.mem[first]
        mu        == ScalarDiv(total_sum, st.count)                        \* line 51
        variance  == ScalarDiv(ScalarSub(st.total_sum_square,
                                         ScalarDiv(ScalarMul(total_sum, total_sum), st.count)),
                               st.count - 1)                               \* line 53
    IN  [count |-> st.count, mean |-> mu, std |-> sqrt(variance), mem |-> st.mem]

\* lines 60-65: x -= self.mean; x /= self.std + self.eps, in place on x
encode(self, xs) ==
    [self |-> self,
     x    |-> [i \in DOMAIN xs |->
                 true_divide(ScalarSub(xs[i], self.mean), ScalarAdd(self.std, self.eps))]]

\* lines 67-85 with sample_idx = None: x *= std; x += mean, in place on x
decode(self, xs) ==
    [self |-> self,
     x    |-> [i \in DOMAIN xs |->
                 ScalarAdd(ScalarMul(xs[i], ScalarAdd(self.std, self.eps)), self.mean)]]

(***************************************************************************)
(* RNO.__init__ (rno.py:49-88).  The arguments are a record of the         *)
(* parameters; a layer is [width, return_sequences].                       *)
(***************************************************************************)
\* a name read in the body: a parameter, or else a NameError (the module,
\* lines 1-7, binds only torch, np, nn, F, RNO_layer, DomainPadding and RNO)
lookup(locals, name) ==
    IF name \in DOMAIN locals THEN [err |-> "none", value |-> locals[name]]
    ELSE [err |-> "NameError", value |-> 0]

\* lines 83-86
module_list(n_layers, w) ==
    [i \in 1..n_layers |-> [width |-> w, return_sequences |-> i < n_layers]]

\* lines 62-88
RNO_init(args) ==
    LET width == lookup(args, "width")                                     \* line 67
    IN  IF width.err # "none"
        THEN [err |-> width.err, width |-> 0, residual |-> FALSE, domain_padding |-> 0,
              layers |-> <<>>]
        ELSE [err |-> "none", width |-> width.value,
              residual |-> args.residual,                                  \* line 79
              domain_padding |-> args.domain_padding,                      \* lines 69-73
              layers |-> module_list(args.n_layers, width.value)]

(***************************************************************************)
(* State: the reducer's caller, an RNO instance and a call of its predict,  *)
(* a domain padder and the field it pads.                                  *)
(***************************************************************************)
VARIABLES
    src,        \* the caller's src tensor (row contents), as it is now
    indptr,     \* the caller's indptr tensor
    calls,      \* the calls made so far, oldest first: [reduce, before, ret]
    rno,        \* the RNO instance: [n_layers, residual, domain_padding]
    pc,         \* where RNO.predict is: "idle", "loop", "returned", "raised"
    x0,         \* the x given to predict
    num_steps,  \* the num_steps given to predict
    x,          \* predict's local x
    states,     \* predict's local states
    output,     \* predict's local output
    step,       \* predict's loop variable i
    flog,       \* the forward calls predict has made: [x, hidden, ret]
    result,     \* what predict returned
    fcall,      \* the last forward call made directly by a caller
    padder,     \* the DomainPadding object: [mode, frac, cache]
    ppc,        \* "fresh", "padded" or "unpadded"
    pin,        \* the field given to pad
    pout,       \* the field pad returned
    uout,       \* what unpad returned: [err, field]
    qcall,      \* the call of get_coeff_quantile_idx: [alpha, delta, n_samples,
                \* n_gridpts, ret], alpha and delta in percent
    uq,         \* the UQNODataProcessor: [base_train, scale_factor]
    val_ratios, \* the calibration ratio set: [collected, ratios]
    upost,      \* the postprocess call a caller made: [called, before, out, sample, ret]
    ueval,      \* the eval_coverage_bandwidth call: [called, before, ratios_before,
                \* test, alpha, ret]
    ucal,       \* the last pass of the calibration loop: [ran, ratios0, earlier,
                \* alpha, delta, ret], alpha and delta in percent
    store,      \* the caller's samples, as they are now: a sequence of scalars
    normalizer, \* the UnitGaussianNormalizer: [built, kind, count, mean, std, eps,
                \* given, made, encoded]
    ctor        \* the call of RNO.__init__: [called, args, ret]

csr_vars == <<src, indptr, calls>>

rno_vars == <<rno, pc, x0, num_steps, x, states, output, step, flog, result, fcall>>

pad_vars == <<padder, ppc, pin, pout, uout>>

vars == <<src, indptr, calls, rno, pc, x0, num_steps, x, states, output, step, flog,
          result, fcall, padder, ppc, pin, pout, uout, qcall,
          uq, val_ratios, upost, ueval, ucal, store, normalizer, ctor>>

norm_vars == <<store, normalizer>>

ctor_vars == <<ctor>>

uq_vars == <<uq, val_ratios, upost, ueval, ucal>>

idx_vars == <<qcall>>

\* sequences over S of length 0..n
SeqUpTo(S, n) == UNION { [1..k -> S] : k \in 0..n }

NonDecreasing(p) == \A i \in 1..(Len(p) - 1) : p[i] <= p[i + 1]

\* a CSR grouping over a src of n rows
CsrIndptr(n) ==
    { p \in SeqUpTo(0..n, MaxGroups + 1) : Len(p) >= 1 /\ NonDecreasing(p) }

Modes == {"sum", "mean", "max"}

CsrInputs ==
    /\ src \in SeqUpTo(Rows, MaxLen)
    /\ indptr \in CsrIndptr(Len(src))
    /\ calls = <<>>

CsrIdle ==
    /\ src = <<>>
    /\ indptr = <<0>>
    /\ calls = <<>>

\* the fields and input sequences the RNO is given: two grid points
Fields == [1..2 -> 0..1]

Inputs == { xs \in SeqUpTo(Fields, MaxT) : Len(xs) >= 1 }

Instances ==
    [n_layers : 1..MaxLayers, residual : BOOLEAN, domain_padding : 0..1]

NoCall == [x |-> None, hidden |-> NoList,
           ret |-> [err |-> "nocall", pred |-> None, states |-> None, ran |-> <<>>,
                    layers |-> <<>>, events |-> <<>>, padded |-> None, h |-> None]]

PredictIdle ==
    /\ pc = "idle"
    /\ x0 = None
    /\ num_steps = 0
    /\ x = None
    /\ states = None
    /\ output = <<>>
    /\ step = 0
    /\ flog = <<>>
    /\ result = [err |-> "nocall", value |-> None]
    /\ fcall = NoCall

RnoInstances == rno \in Instances /\ PredictIdle

RnoIdle == rno = [n_layers |-> 1, residual |-> FALSE, domain_padding |-> 0] /\ PredictIdle

NoField == [shape |-> <<>>, data |-> <<>>]

NoCache == [shape |-> <<>>, pads |-> <<>>]

PadModes == {"symmetric", "one-sided"}

PadFracs == { <<1, 10>>, <<1, 4>>, <<1, 2>> }

AxisSizes == {1, 2, 3, 10}

Shapes == UNION { [1..n -> AxisSizes] : n \in {1, 2, 3} }

\* the fields given to pad: every shape, with values that differ from point
\* to point
PadFields ==
    { [shape |-> sh,
       data  |-> [idx \in IndexTuples(sh) |->
                    1 + ((seed + idx[1] + 2 * idx[Len(sh)] + 3 * idx[(Len(sh) + 1) \div 2]) % 5)]] :
        sh \in Shapes, seed \in 0..1 }

PadUnused ==
    /\ ppc = "fresh"
    /\ pin = NoField
    /\ pout = NoField
    /\ uout = [err |-> "nocall", field |-> NoField]

Padders ==
    /\ padder \in [mode : PadModes, frac : PadFracs, cache : {NoCache}]
    /\ PadUnused

PadIdle ==
    /\ padder = [mode |-> "one-sided", frac |-> <<1, 10>>, cache |-> NoCache]
    /\ PadUnused

NoQuantileCall ==
    [alpha |-> 0, delta |-> 0, n_samples |-> 0, n_gridpts |-> 0,
     ret |-> [err |-> "nocall", domain_idx |-> 0, function_idx |-> 0,
              lb |-> 0, t |-> 0, percentile |-> 0]]

IdxIdle == qcall = NoQuantileCall

NoNormalizer ==
    [built |-> FALSE, kind |-> "none", count |-> 0, mean |-> Num(0), std |-> Num(0),
     eps |-> Num(0), given |-> <<>>,
     made |-> [count |-> 0, mean |-> Num(0), std |-> Num(0)], encoded |-> FALSE]

NormIdle == store = <<>> /\ normalizer = NoNormalizer

\* the values of the samples (line 197 draws them at random)
SampleValues == { Num(v) : v \in 0..2 }

\* the caller's samples: 2..MaxSamples scalars
Stores == UNION { [1..k -> SampleValues] : k \in 2..MaxSamples }

\* the cells a generator yields, in the order it yields them: at least two
Orders(mem) == UNION { [1..k -> DOMAIN mem] : k \in 2..MaxSamples }

\* the eps given to the constructor (line 12)
EpsValues == { Frac(1, 10) }

NoConstruction ==
    [called |-> FALSE,
     args |-> [n_modes |-> <<>>, hidden_channels |-> 0, in_channels |-> 0,
               out_channels |-> 0, n_layers |-> 0, residual |-> FALSE,
               domain_padding |-> 0],
     ret |-> [err |-> "nocall", width |-> 0, residual |-> FALSE, domain_padding |-> 0,
              layers |-> <<>>]]

CtorIdle == ctor = NoConstruction

\* valid arguments of RNO.__init__ (lines 49-61), the others at their defaults
ModeCounts == { <<4>>, <<4, 4>> }

HiddenChannels == {1, 2, 8}

Channels == {1, 2}

InitArguments ==
    [n_modes : ModeCounts, hidden_channels : HiddenChannels, in_channels : Channels,
     out_channels : Channels, n_layers : 1..(MaxLayers + 1), residual : BOOLEAN,
     domain_padding : 0..1]

\* the arguments given to get_coeff_quantile_idx
Alphas == 0..MaxAlphaPct

Deltas == {2, 5, 10, 50, 90}

SampleCounts == {10, 100}

GridSizes == {16, 256, 400}

\* a processor as its constructor leaves it (line 278: scale_factor = None),
\* around a base processor whose train attribute is base_train
NewProcessor(base_train) ==
    [base_train |-> base_train, scale_factor |-> [set |-> FALSE, value |-> Num(0)]]

NoRatios == [collected |-> FALSE, unscaled |-> TRUE, ratios |-> <<>>]

NoCalibration ==
    [ran |-> FALSE, ratios0 |-> NoRatios, earlier |-> [set |-> FALSE, value |-> Num(0)],
     alpha |-> 0, delta |-> 0,
     ret |-> [err |-> "none", idx |-> [err |-> "none", domain_idx |-> 0, function_idx |-> 0],
              quantiles |-> <<>>, factor |-> Num(0)]]

NoPostprocess ==
    [called |-> FALSE, before |-> NewProcessor(TRUE), out |-> <<>>, sample |-> <<>>,
     ret |-> <<>>]

NoEvaluation ==
    [called |-> FALSE, before |-> NewProcessor(TRUE), ratios_before |-> NoRatios,
     test |-> <<>>, alpha |-> Num(0), ret |-> <<>>]

UqIdle ==
    /\ uq = NewProcessor(TRUE)
    /\ val_ratios = NoRatios
    /\ upost = NoPostprocess
    /\ ueval = NoEvaluation
    /\ ucal = NoCalibration

UqPoints == 1..NPts

\* what a grid point holds: the normalized ground truth y, the normalized
\* solution prediction g_hat and the normalized uncertainty prediction u
PointCases ==
    { [y |-> 1, g_hat |-> 0, u |-> 1],
      [y |-> 0, g_hat |-> 1, u |-> -2],
      [y |-> 1, g_hat |-> 0, u |-> 0] }

\* the sample of a loader after preprocess, and the output of the UQNO for it
ItemOf(cases, with_aux) ==
    LET xf == [p \in UqPoints |-> Num(0)]
        yf == [p \in UqPoints |-> Num(cases[p].y)]
    IN  [sample |-> IF with_aux
                    THEN [k \in {"x", "y", "aux"} |->
                            IF k = "y" THEN yf ELSE IF k = "x" THEN xf
                            ELSE [p \in UqPoints |-> Num(p)]]
                    ELSE [k \in {"x", "y"} |-> IF k = "y" THEN yf ELSE xf],
         out    |-> << [p \in UqPoints |-> Num(cases[p].g_hat)],
                       [p \in UqPoints |-> Num(cases[p].u)] >>]

DataItems == { ItemOf(cases, FALSE) : cases \in [UqPoints -> PointCases] }

PostprocessItems ==
    { ItemOf(cases, with_aux) : cases \in [UqPoints -> PointCases], with_aux \in BOOLEAN }

CalibSizes == 1..2

CalibSets == UNION { [1..k -> DataItems] : k \in CalibSizes }

TestSizes == 1..2

TestSets == UNION { [1..k -> DataItems] : k \in TestSizes }

\* the scale factors a caller sets
Factors == { Frac(1, 2), Num(2) }

\* the alphas and deltas of the calibration loop, in percent
LoopAlphas == {10, 40, 60}

LoopDeltas == {10, 50}

\* the test loader of the calibration loop
LoopTestSets ==
    { << ItemOf([p \in UqPoints |-> [y |-> 1, g_hat |-> 0, u |-> 1]], FALSE),
         ItemOf([p \in UqPoints |-> [y |-> 0, g_hat |-> 1, u |-> -2]], FALSE) >> }

\* the alphas given to eval_coverage_bandwidth
EvalAlphas == { Frac(1, 10), Frac(1, 2) }

\* ratio sets collected from a calibration set of one function
StoredRatios ==
    { [collected |-> TRUE,
       unscaled  |-> TRUE,
       ratios    |-> collect_loop(eval(NewProcessor(TRUE)),
                                  << ItemOf([p \in UqPoints |-> c], FALSE) >>,
                                  1, <<>>).val_ratios] : c \in PointCases }

\* lines 482-485: the processor is constructed around a base processor in
\* either mode; the ratio set is still to be collected
Constructed ==
    /\ uq \in { NewProcessor(b) : b \in BOOLEAN }
    /\ val_ratios = NoRatios
    /\ upost = NoPostprocess
    /\ ueval = NoEvaluation
    /\ ucal = NoCalibration

\* a constructed processor, with or without a collected ratio set
Processors ==
    /\ uq \in { NewProcessor(b) : b \in BOOLEAN }
    /\ val_ratios \in {NoRatios} \cup StoredRatios
    /\ upost = NoPostprocess
    /\ ueval = NoEvaluation
    /\ ucal = NoCalibration

InitCsr == CsrInputs /\ RnoIdle /\ PadIdle /\ IdxIdle /\ UqIdle /\ NormIdle /\ CtorIdle

InitRno == CsrIdle /\ RnoInstances /\ PadIdle /\ IdxIdle /\ UqIdle /\ NormIdle /\ CtorIdle

InitPad == CsrIdle /\ RnoIdle /\ Padders /\ IdxIdle /\ UqIdle /\ NormIdle /\ CtorIdle

InitIdx == CsrIdle /\ RnoIdle /\ PadIdle /\ IdxIdle /\ UqIdle /\ NormIdle /\ CtorIdle

InitUq == CsrIdle /\ RnoIdle /\ PadIdle /\ IdxIdle /\ Processors /\ NormIdle /\ CtorIdle

InitCal == CsrIdle /\ RnoIdle /\ PadIdle /\ IdxIdle /\ Constructed /\ NormIdle /\ CtorIdle

\* one call segment_csr(src, indptr, reduce) by the caller, on its src object
Reduce ==
    /\ Len(calls) < MaxCalls
    /\ \E reduce \in Modes :
         LET ret == segment_csr(src, indptr, reduce)
         IN  /\ src' = ret.src
             /\ calls' = Append(calls, [reduce |-> reduce, before |-> src, ret |-> ret])
    /\ UNCHANGED indptr
    /\ UNCHANGED <<rno_vars, pad_vars, idx_vars, uq_vars, norm_vars, ctor_vars>>

NextCsr == Reduce

SpecCsr == InitCsr /\ [][NextCsr]_vars

\* predict is called: lines 132-133
PredictCall ==
    /\ pc = "idle"
    /\ fcall = NoCall
    /\ \E xin \in Inputs, n \in 0..MaxSteps :
         /\ x0' = xin
         /\ num_steps' = n
         /\ x' = xin
    /\ output' = <<>>
    /\ states' = [i \in 1..rno.n_layers |-> None]
    /\ step' = 0
    /\ pc' = "loop"
    /\ UNCHANGED <<rno, flog, result, fcall>>
    /\ UNCHANGED <<csr_vars, pad_vars, idx_vars, uq_vars, norm_vars, ctor_vars>>

\* a step that starts forward from absent hidden states instead of the carried ones
predict_step_fresh(self, xin, sts) ==
    LET none == [i \in 1..self.n_layers |-> None]
        ret  == forward(self, xin, List(none))
    IN  [call |-> [x |-> xin, hidden |-> List(sts), ret |-> ret],
         pred |-> ret.pred, states |-> ret.states, x |-> reshape(ret.pred)]

\* a step that leaves x as it is instead of feeding the prediction back
predict_step_same_x(self, xin, sts) ==
    LET ret == forward(self, xin, List(sts))
    IN  [call |-> [x |-> xin, hidden |-> List(sts), ret |-> ret],
         pred |-> ret.pred, states |-> ret.states, x |-> xin]

\* the body of one step of predict's loop, lines 136-138
predict_step(self, xin, sts) ==
    LET ret == forward(self, xin, List(sts))
    IN  [call |-> [x |-> xin, hidden |-> List(sts), ret |-> ret],
         pred |-> ret.pred, states |-> ret.states, x |-> reshape(ret.pred)]

\* one iteration of the loop, lines 135-138
PredictStep ==
    /\ pc = "loop"
    /\ step < num_steps
    /\ LET it == predict_step(rno, x, states)
       IN  /\ flog' = Append(flog, it.call)
           /\ states' = it.states
           /\ output' = Append(output, it.pred)
           /\ x' = it.x
    /\ step' = step + 1
    /\ UNCHANGED <<rno, pc, x0, num_steps, result, fcall>>
    /\ UNCHANGED <<csr_vars, pad_vars, idx_vars, uq_vars, norm_vars, ctor_vars>>

\* the loop is over: line 140
PredictReturn ==
    /\ pc = "loop"
    /\ step >= num_steps
    /\ LET r == stack(output)
       IN  /\ pc' = IF r.err = "none" THEN "returned" ELSE "raised"
           /\ result' = r
    /\ UNCHANGED <<rno, x0, num_steps, x, states, output, step, flog, fcall>>
    /\ UNCHANGED <<csr_vars, pad_vars, idx_vars, uq_vars, norm_vars, ctor_vars>>

\* the hidden-state lists a caller of forward can supply: None, or a list of
\* any length of absent and present hidden fields (padded as the instance pads)
HiddenLists(self) ==
    {NoList} \cup { List(l) : l \in SeqUpTo({None, [s \in 1..(2 + self.domain_padding) |-> 1]},
                                            MaxLayers + 1) }

\* a caller calls forward(x, init_hidden_states) directly; the program is
\* single-threaded, so this is not done while predict runs.  forward keeps
\* no state in the instance, so one direct call per behaviour is followed.
Forward ==
    /\ pc = "idle"
    /\ fcall = NoCall
    /\ \E xin \in Inputs, hs \in HiddenLists(rno) :
         fcall' = [x |-> xin, hidden |-> hs, ret |-> forward(rno, xin, hs)]
    /\ UNCHANGED <<rno, pc, x0, num_steps, x, states, output, step, flog, result>>
    /\ UNCHANGED <<csr_vars, pad_vars, idx_vars, uq_vars, norm_vars, ctor_vars>>

NextRno == PredictCall \/ PredictStep \/ PredictReturn \/ Forward

SpecRno == InitRno /\ [][NextRno]_vars

\* pad(field) is called on a padder that has padded nothing yet
Pad ==
    /\ ppc = "fresh"
    /\ \E f \in PadFields :
         LET r == DomainPadding_pad(padder, f)
         IN  /\ pin' = f
             /\ pout' = r.padded
             /\ padder' = r.self
    /\ ppc' = "padded"
    /\ UNCHANGED uout
    /\ UNCHANGED <<csr_vars, rno_vars, idx_vars, uq_vars, norm_vars, ctor_vars>>

\* unpad is called on what pad returned, its resolution unchanged
Unpad ==
    /\ ppc = "padded"
    /\ uout' = DomainPadding_unpad(padder, pout)
    /\ ppc' = "unpadded"
    /\ UNCHANGED <<padder, pin, pout>>
    /\ UNCHANGED <<csr_vars, rno_vars, idx_vars, uq_vars, norm_vars, ctor_vars>>

NextPad == Pad \/ Unpad

SpecPad == InitPad /\ [][NextPad]_vars

\* get_coeff_quantile_idx is called; it is a pure function, so one call per
\* behaviour is followed
GetCoeffQuantileIdx ==
    /\ qcall = NoQuantileCall
    /\ \E a \in Alphas, d \in Deltas, ns \in SampleCounts, n \in GridSizes :
         qcall' = [alpha |-> a, delta |-> d, n_samples |-> ns, n_gridpts |-> n,
                   ret |-> get_coeff_quantile_idx(a, d, ns, n)]
    /\ UNCHANGED <<csr_vars, rno_vars, pad_vars, uq_vars, norm_vars, ctor_vars>>

NextIdx == GetCoeffQuantileIdx

SpecIdx == InitIdx /\ [][NextIdx]_vars

\* the calls on the processor are followed up to the first postprocess or
\* eval_coverage_bandwidth call a caller makes
Quiet == ~upost.called /\ ~ueval.called

Train ==
    /\ Quiet
    /\ uq' = train(uq)
    /\ UNCHANGED <<val_ratios, upost, ueval, ucal>>
    /\ UNCHANGED <<csr_vars, rno_vars, pad_vars, idx_vars, norm_vars, ctor_vars>>

Eval ==
    /\ Quiet
    /\ uq' = eval(uq)
    /\ UNCHANGED <<val_ratios, upost, ueval, ucal>>
    /\ UNCHANGED <<csr_vars, rno_vars, pad_vars, idx_vars, norm_vars, ctor_vars>>

SetScaleFactor ==
    /\ Quiet
    /\ \E factor \in Factors : uq' = set_scale_factor(uq, factor)
    /\ UNCHANGED <<val_ratios, upost, ueval, ucal>>
    /\ UNCHANGED <<csr_vars, rno_vars, pad_vars, idx_vars, norm_vars, ctor_vars>>

Postprocess ==
    /\ Quiet
    /\ \E item \in PostprocessItems :
         LET ret == postprocess(uq, item.out, item.sample)
         IN  /\ uq' = ret.self
             /\ upost' = [called |-> TRUE, before |-> uq, out |-> item.out,
                          sample |-> item.sample, ret |-> ret]
    /\ UNCHANGED <<val_ratios, ueval, ucal>>
    /\ UNCHANGED <<csr_vars, rno_vars, pad_vars, idx_vars, norm_vars, ctor_vars>>

EvalCoverage ==
    /\ Quiet
    /\ \E test \in TestSets, alpha \in EvalAlphas :
         LET ret == eval_coverage_bandwidth(uq, test, alpha)
         IN  /\ uq' = ret.self
             /\ ueval' = [called |-> TRUE, before |-> uq, ratios_before |-> val_ratios,
                          test |-> test, alpha |-> alpha, ret |-> ret]
    /\ UNCHANGED <<val_ratios, upost, ucal>>
    /\ UNCHANGED <<csr_vars, rno_vars, pad_vars, idx_vars, norm_vars, ctor_vars>>

NextUq == Train \/ Eval \/ SetScaleFactor \/ Postprocess \/ EvalCoverage

SpecUq == InitUq /\ [][NextUq]_vars

\* lines 487-500: uqno_data_proc.eval(), then the loop over calib_loader and
\* torch.stack
CollectRatios ==
    /\ ~val_ratios.collected
    /\ \E calib \in CalibSets :
         LET done == collect_loop(eval(uq), calib, 1, <<>>)
         IN  /\ uq' = done.self
             /\ val_ratios' = [collected |-> TRUE, unscaled |-> ~uq.scale_factor.set,
                                ratios |-> done.val_ratios]
    /\ UNCHANGED <<upost, ueval, ucal>>
    /\ UNCHANGED <<csr_vars, rno_vars, pad_vars, idx_vars, norm_vars, ctor_vars>>

\* lines 550-562: one pass of the calibration loop.  A selection that
\* raises ends the script, so no pass follows it.
Calibrate ==
    /\ val_ratios.collected
    /\ ucal.ret.err = "none"
    /\ \E alpha_pct \in LoopAlphas, delta_pct \in LoopDeltas, test \in LoopTestSets :
       \E run \in { calibrate(uq, val_ratios.ratios, alpha_pct, delta_pct) } :
         LET rec == [ran     |-> TRUE,
                     ratios0 |-> IF ucal.ran THEN ucal.ratios0 ELSE val_ratios,
                     earlier |-> uq.scale_factor,
                     alpha   |-> alpha_pct,
                     delta   |-> delta_pct,
                     ret     |-> [err |-> run.err, idx |-> run.idx,
                                  quantiles |-> run.quantiles, factor |-> run.factor]]
         IN  IF run.err # "none"
             THEN /\ ucal' = rec
                  /\ UNCHANGED <<uq, ueval>>
             ELSE LET alpha == Frac(alpha_pct, 100)
                  IN  \E ret \in { eval_coverage_bandwidth(eval(run.self), test, alpha) } :
                      /\ ucal' = rec
                      /\ uq' = ret.self
                      /\ ueval' = [called |-> TRUE, before |-> eval(run.self),
                                   ratios_before |-> val_ratios, test |-> test,
                                   alpha |-> alpha, ret |-> ret]
    /\ UNCHANGED <<val_ratios, upost>>
    /\ UNCHANGED <<csr_vars, rno_vars, pad_vars, idx_vars, norm_vars, ctor_vars>>

NextCal == CollectRatios \/ Calibrate

SpecCal == InitCal /\ [][NextCal]_vars

InitNorm ==
    /\ CsrIdle /\ RnoIdle /\ PadIdle /\ IdxIdle /\ UqIdle /\ CtorIdle
    /\ store \in Stores
    /\ normalizer = NoNormalizer

Built(kind, stats, eps, given) ==
    [built |-> TRUE, kind |-> kind, count |-> stats.count, mean |-> stats.mean,
     std |-> stats.std, eps |-> eps, given |-> given,
     made |-> [count |-> stats.count, mean |-> stats.mean, std |-> stats.std],
     encoded |-> FALSE]

\* UnitGaussianNormalizer(X) on the stacked samples (lines 197-198)
ConstructFromTensor ==
    /\ ~normalizer.built
    /\ \E order \in Orders(store), eps \in EpsValues :
         normalizer' = Built("tensor", compute_statistics_tensor(samples_of(store, order)),
                             eps, samples_of(store, order))
    /\ UNCHANGED store
    /\ UNCHANGED <<csr_vars, rno_vars, pad_vars, idx_vars, uq_vars, ctor_vars>>

\* UnitGaussianNormalizer(gen()) on a generator of views (lines 203-208)
ConstructFromGenerator ==
    /\ ~normalizer.built
    /\ \E order \in Orders(store), eps \in EpsValues :
       \E stats \in { compute_statistics_generator(store, order) } :
         /\ normalizer' = Built("generator", stats, eps, samples_of(store, order))
         /\ store' = stats.mem
    /\ UNCHANGED <<csr_vars, rno_vars, pad_vars, idx_vars, uq_vars, ctor_vars>>

\* normalizer.encode(X) (lines 199, 209)
Encode ==
    /\ normalizer.built
    /\ ~normalizer.encoded
    /\ \E ret \in { encode(normalizer, store) } :
         /\ normalizer' = [ret.self EXCEPT !.encoded = TRUE]
         /\ store' = ret.x
    /\ UNCHANGED <<csr_vars, rno_vars, pad_vars, idx_vars, uq_vars, ctor_vars>>

\* normalizer.decode(X_norm) (lines 200, 210)
Decode ==
    /\ normalizer.built
    /\ normalizer.encoded
    /\ \E ret \in { decode(normalizer, store) } :
         /\ normalizer' = [ret.self EXCEPT !.encoded = FALSE]
         /\ store' = ret.x
    /\ UNCHANGED <<csr_vars, rno_vars, pad_vars, idx_vars, uq_vars, ctor_vars>>

NextNorm == ConstructFromTensor \/ ConstructFromGenerator \/ Encode \/ Decode

SpecNorm == InitNorm /\ [][NextNorm]_vars

InitCtor == CsrIdle /\ RnoIdle /\ PadIdle /\ IdxIdle /\ UqIdle /\ NormIdle /\ CtorIdle

\* RNO(n_modes, hidden_channels, in_channels, out_channels, n_layers, ...)
Construct ==
    /\ ~ctor.called
    /\ \E args \in InitArguments :
         ctor' = [called |-> TRUE, args |-> args, ret |-> RNO_init(args)]
    /\ UNCHANGED <<csr_vars, rno_vars, pad_vars, idx_vars, uq_vars, norm_vars>>

NextCtor == Construct

SpecCtor == InitCtor /\ [][NextCtor]_vars

(***************************************************************************)
(* Reference aggregates, taken over the contents src had when the call     *)
(* began, and the shapes of input the claims speak about.                  *)
(***************************************************************************)
\* elementwise sum of rows lo..hi-1 (0-based) of s, the empty sum being zero
RECURSIVE SliceSum(_, _, _)
SliceSum(s, lo, hi) ==
    IF lo >= hi THEN ZeroRow ELSE RowAdd(SliceSum(s, lo, hi - 1), s[hi])

Groups == 1..(Len(indptr) - 1)

GroupLen(i) == indptr[i + 1] - indptr[i]

\* what group i of a call should aggregate to
Aggregate(c, i) ==
    LET sum == SliceSum(c.before, indptr[i], indptr[i + 1])
    IN  IF c.reduce = "sum" \/ GroupLen(i) = 0 THEN sum ELSE RowDiv(sum, GroupLen(i))

Valid(c) == c.reduce \in {"sum", "mean"}

Calls == { calls[k] : k \in 1..Len(calls) }

\* C1: with every group non-empty, 'sum' returns for each group i the
\* elementwise sum of src[indptr[i]:indptr[i+1]] and 'mean' returns that sum
\* divided by the group length.
C1_SumAndMeanOfNonEmptyGroups ==
    \A c \in Calls :
        (Valid(c) /\ \A i \in Groups : GroupLen(i) > 0)
        => /\ c.ret.err = "none"
           /\ Len(c.ret.out) = Len(indptr) - 1
           /\ \A i \in Groups : c.ret.out[i] = Aggregate(c, i)

\* a 'mean' call over two groups, one of them of three rows that are not all equal
C1_Witness ==
    \E c \in Calls :
        /\ c.reduce = "mean"
        /\ Len(indptr) = 3
        /\ \A i \in Groups : GroupLen(i) > 0
        /\ \E i \in Groups : GroupLen(i) = 3 /\ c.before[indptr[i] + 1] # c.before[indptr[i] + 2]
        /\ \A i \in Groups : c.ret.out[i] = Aggregate(c, i)

\* C2: every group of zero length gets an all-zero aggregate in both modes,
\* and 'mean' performs no division by a zero group length.
C2_EmptyGroupIsZero ==
    \A c \in Calls :
        Valid(c) => /\ \A i \in Groups : GroupLen(i) = 0 => c.ret.out[i] = ZeroRow
                    /\ ~c.ret.zerodiv

\* C3: when some group starts at len(src), the output entries from that group
\* on are zero, no error is raised, and the earlier groups have their
\* aggregates.
C3_TrailingEmptyGroups ==
    \A c \in Calls :
        \A i \in Groups :
            (Valid(c) /\ indptr[i] = Len(c.before))
            => /\ c.ret.err = "none"
               /\ \A k \in Groups : k >= i => c.ret.out[k] = ZeroRow
               /\ \A k \in Groups : k < i => c.ret.out[k] = Aggregate(c, k)

\* C4: a call leaves every element of src as it was before the call.
C4_SrcUnchanged ==
    \A c \in Calls : Valid(c) => c.ret.src = c.before

\* C5: two calls with the same mode on the same src object and indptr return
\* equal outputs.
C5_Deterministic ==
    \A c, d \in Calls : c.reduce = d.reduce => c.ret.out = d.ret.out

\* C6: a mode other than 'sum' and 'mean' raises ValueError before any row of
\* src is read or written, and no output is returned.
C6_InvalidModeRejected ==
    \A c \in Calls :
        ~Valid(c) => /\ c.ret.err = "ValueError"
                     /\ c.ret.src = c.before
                     /\ c.ret.touched = {}
                     /\ c.ret.out = <<>>

\* an invalid mode given with a group of several distinct rows, which a valid
\* mode would have accumulated in place
C6_Witness ==
    \E c \in Calls :
        /\ ~Valid(c)
        /\ c.ret.err = "ValueError"
        /\ segment_csr(c.before, indptr, "sum").src # c.before

\* the contents src can have after the rows inside each group's slice are
\* reordered, every row outside the slices being left in place
InGroup(k) == \E i \in Groups : indptr[i] < k /\ k <= indptr[i + 1]

SameGroup(k, m) == \E i \in Groups : indptr[i] < k /\ k <= indptr[i + 1]
                                     /\ indptr[i] < m /\ m <= indptr[i + 1]

WithinGroupPermutations(s) ==
    { [k \in 1..Len(s) |-> s[f[k]]] :
        f \in { g \in [1..Len(s) -> 1..Len(s)] :
                  /\ \A k, m \in 1..Len(s) : k # m => g[k] # g[m]
                  /\ \A k \in 1..Len(s) : g[k] # k => SameGroup(k, g[k]) } }

\* C7: reordering the rows inside the groups' slices does not change the
\* output of 'sum' or of 'mean'.
C7_OrderInsensitive ==
    \A c \in Calls :
        Valid(c) => \A p \in WithinGroupPermutations(c.before) :
                        segment_csr(p, indptr, c.reduce).out = c.ret.out

(***************************************************************************)
(* RNO.predict against forward called by hand.                             *)
(***************************************************************************)
AllAbsent == [i \in 1..rno.n_layers |-> None]

\* forward called k times by hand from input xin and hidden-state list hs, each
\* call given the list the one before returned and its prediction with a
\* singleton time axis; the predictions in order
RECURSIVE ByHand(_, _, _)
ByHand(xin, hs, k) ==
    IF k = 0 THEN <<>>
    ELSE LET r == forward(rno, xin, List(hs))
         IN  <<r.pred>> \o ByHand(<<r.pred>>, r.states, k - 1)

PredictOver == pc \in {"returned", "raised"}

\* C8: for k >= 1, predict(x0, k) returns the predictions that k calls of
\* forward by hand give, hidden states threaded and predictions fed back.
C8_PredictEqualsManualRollout ==
    (PredictOver /\ num_steps >= 1)
    => /\ pc = "returned"
       /\ result.value = ByHand(x0, AllAbsent, num_steps)

\* a five-step rollout of a two-layer instance, over an input of two timesteps
C8_Witness ==
    /\ pc = "returned"
    /\ num_steps = 5
    /\ rno.n_layers = 2
    /\ Len(x0) = 2
    /\ result.value = ByHand(x0, AllAbsent, 5)

\* the forward calls predict has made form a chain: the first takes x0 and
\* absent hidden states, each later one the prediction and the hidden states
\* of the call before it
Chained ==
    /\ Len(flog) = step
    /\ Len(output) = step
    /\ \A j \in 1..Len(flog) :
         /\ flog[j].ret.err = "none"
         /\ output[j] = flog[j].ret.pred
         /\ Len(flog[j].ret.states) = rno.n_layers
         /\ flog[j].x = IF j = 1 THEN x0 ELSE <<flog[j - 1].ret.pred>>
         /\ flog[j].hidden = IF j = 1 THEN List(AllAbsent) ELSE List(flog[j - 1].ret.states)

\* C9 as stated: predict(x0, num_steps) makes exactly num_steps forward calls
\* in a chain and returns exactly num_steps predictions in step order.
C9_Original ==
    /\ pc # "idle" => Chained /\ step <= num_steps
    /\ PredictOver => /\ pc = "returned"
                      /\ Len(flog) = num_steps
                      /\ result.value = [j \in 1..num_steps |-> flog[j].ret.pred]

\* C9, amended: for num_steps >= 1, predict(x0, num_steps) makes exactly
\* num_steps forward calls in a chain (each call takes the prediction and the
\* hidden states of the call before it, the first x0 and absent hidden states)
\* and returns exactly num_steps predictions in step order.
C9_SequentialRollout ==
    /\ pc # "idle" => Chained /\ step <= num_steps
    /\ (PredictOver /\ num_steps >= 1)
       => /\ pc = "returned"
          /\ Len(flog) = num_steps
          /\ result.value = [j \in 1..num_steps |-> flog[j].ret.pred]

\* a returned rollout of three steps whose hidden states really were carried:
\* the second call received present hidden states
C9_Witness ==
    /\ pc = "returned"
    /\ num_steps = 3
    /\ Len(result.value) = 3
    /\ flog[2].hidden.list # AllAbsent
    /\ flog[3].x = <<flog[2].ret.pred>>

\* C10: a hidden-state list whose length differs from n_layers is rejected
\* with InvalidConfiguration and no layer is run with it.
C10_LengthMismatchRejected ==
    (fcall # NoCall /\ ~fcall.hidden.none /\ Len(fcall.hidden.list) # rno.n_layers)
    => /\ fcall.ret.err = "InvalidConfiguration"
       /\ fcall.ret.ran = <<>>

(***************************************************************************)
(* Domain padding.                                                         *)
(***************************************************************************)
Axes == 1..Len(pin.shape)

\* p is fractional_pad * s rounded to a nearest integer
IsRounded(p, frac, s) ==
    /\ p >= 0
    /\ 2 * Abs(frac[1] * s - p * frac[2]) <= frac[2]

\* C11: unpad(pad(field)) is field, shape and values, in 'symmetric' and in
\* 'one-sided' mode and for 1, 2 and 3 spatial axes, when the resolution does
\* not change between pad and unpad.
C11_UnpadInvertsPad ==
    ppc = "unpadded" => /\ uout.err = "none"
                        /\ uout.field.shape = pin.shape
                        /\ uout.field.data = pin.data

\* a symmetric round trip over three axes, two of them really padded, of a
\* field whose values are not all equal
C11_Witness ==
    /\ ppc = "unpadded"
    /\ padder.mode = "symmetric"
    /\ Len(pin.shape) = 3
    /\ pout.shape[1] > pin.shape[1]
    /\ pout.shape[3] > pin.shape[3]
    /\ \E i, j \in DOMAIN pin.data : pin.data[i] # pin.data[j]
    /\ uout.field = pin

\* C12: pad grows every axis of size s by p = round(fractional_pad * s) in
\* 'one-sided' mode, all of it after the field, and by 2p in 'symmetric' mode,
\* p before and p after the field; unpad returns the field's shape.
C12_PadGrowth ==
    /\ ppc # "fresh" =>
         \E pads \in [Axes -> 0..MaxOf(AxisSizes)] :
            /\ \A k \in Axes : IsRounded(pads[k], padder.frac, pin.shape[k])
            /\ Len(pout.shape) = Len(pin.shape)
            /\ \A k \in Axes :
                 pout.shape[k] = pin.shape[k]
                                 + (IF padder.mode = "one-sided" THEN pads[k] ELSE 2 * pads[k])
            /\ \A idx \in DOMAIN pout.data :
                 LET at == [k \in Axes |->
                              idx[k] - (IF padder.mode = "one-sided" THEN 0 ELSE pads[k])]
                 IN  pout.data[idx] = IF at \in DOMAIN pin.data THEN pin.data[at] ELSE 0
    /\ ppc = "unpadded" => uout.field.shape = pin.shape

\* the scenario of the specification: (10, 10) padded one-sided by 0.1
C12_Witness ==
    /\ ppc = "unpadded"
    /\ padder.mode = "one-sided"
    /\ padder.frac = <<1, 10>>
    /\ pin.shape = <<10, 10>>
    /\ pout.shape = <<11, 11>>
    /\ uout.field.shape = <<10, 10>>

(***************************************************************************)
(* get_coeff_quantile_idx                                                  *)
(***************************************************************************)
QuantileCalled == qcall.ret.err # "nocall"

PreconditionHolds(alpha_pct, delta_pct, n_gridpts) ==
    LET lb == lower_bound(delta_pct, n_gridpts)
        t  == tolerance(alpha_pct, delta_pct, n_gridpts)
    IN  lb <= t /\ t <= FromPct(alpha_pct)

\* C16: a call of get_coeff_quantile_idx whose alpha, delta and n_gridpts do
\* not satisfy lb <= t <= alpha raises InvalidConfiguration instead of
\* returning indices, and a call that satisfies it (alpha = 0.1, delta = 0.1,
\* n_samples = 100, n_gridpts = 400 among them) returns indices.
C16_PreconditionChecked ==
    QuantileCalled =>
        IF PreconditionHolds(qcall.alpha, qcall.delta, qcall.n_gridpts)
        THEN qcall.ret.err = "none"
        ELSE qcall.ret.err = "InvalidConfiguration"

\* C17: with n_gridpts, n_samples and delta fixed, neither index returned by
\* get_coeff_quantile_idx decreases when alpha grows.
C17_MonotoneInAlpha ==
    QuantileCalled =>
        \A alpha2 \in Alphas :
            qcall.alpha <= alpha2 =>
                LET other == get_coeff_quantile_idx(alpha2, qcall.delta,
                                                    qcall.n_samples, qcall.n_gridpts)
                IN  /\ qcall.ret.domain_idx <= other.domain_idx
                    /\ qcall.ret.function_idx <= other.function_idx

\* a call whose larger alphas give strictly larger indices of both kinds
C17_Witness ==
    /\ QuantileCalled
    /\ \E alpha2 \in Alphas :
          /\ qcall.alpha < alpha2
          /\ LET other == get_coeff_quantile_idx(alpha2, qcall.delta,
                                                 qcall.n_samples, qcall.n_gridpts)
             IN  /\ qcall.ret.domain_idx < other.domain_idx
                 /\ qcall.ret.function_idx < other.function_idx

(***************************************************************************)
(* UQNODataProcessor.postprocess                                           *)
(***************************************************************************)
\* C13: whatever train() and eval() calls came before it, postprocess has
\* the base data processor in evaluation mode when the base processor
\* unnormalizes the ground truth, and leaves it in evaluation mode when it
\* returns.
C13_PostprocessForcesEval ==
    upost.called => /\ ~upost.ret.denorm_train
                    /\ ~upost.ret.self.base_train
                    /\ ~uq.base_train

\* postprocess was called on a processor whose base processor was in
\* training mode
C13_Witness == upost.called /\ upost.before.base_train

Unnormalized(f) == out_normalizer_inverse_transform(f)

C15_ScaleAppliedOnce ==
    upost.called =>
        LET unc == residual_normalizer_inverse_transform(upost.out[2])
        IN  \A p \in UqPoints :
               upost.ret.pred_uncertainty[p] =
                  IF upost.before.scale_factor.set
                  THEN ScalarMul(unc[p], upost.before.scale_factor.value)
                  ELSE unc[p]

\* a scale factor other than 1 was set and a non-zero uncertainty was scaled
C15_Witness ==
    /\ upost.called
    /\ upost.before.scale_factor.set
    /\ \E p \in UqPoints :
          upost.ret.pred_uncertainty[p] #
              residual_normalizer_inverse_transform(upost.out[2])[p]

(***************************************************************************)
(* eval_coverage_bandwidth and the calibration ratio set                   *)
(***************************************************************************)
\* the true residual and the scaled uncertainty of one test item
Quantities(item) == postprocess(ueval.before, item.out, item.sample)

Hits(item) ==
    LET q == Quantities(item)
    IN  { p \in UqPoints : ScalarLess(ScalarAbs(q.sample["y"][p]),
                                      ScalarAbs(q.pred_uncertainty[p])) }

\* Cardinality(Hits(item)) / NPts >= 1 - alpha, alpha = alpha[1] / alpha[2]
IsCovered(item, alpha) ==
    Cardinality(Hits(item)) * alpha[2] >= NPts * (alpha[2] - alpha[1])

CoveredSamples ==
    { i \in DOMAIN ueval.test : IsCovered(ueval.test[i], ueval.alpha) }

\* the widths |scaled uncertainty| of all points of all test items
Widths ==
    [n \in 1..(Len(ueval.test) * NPts) |->
        ScalarAbs(Quantities(ueval.test[((n - 1) \div NPts) + 1])
                      .pred_uncertainty[((n - 1) % NPts) + 1])]

C19_EvalReadOnly ==
    ueval.called => /\ uq.scale_factor = ueval.before.scale_factor
                    /\ val_ratios = ueval.ratios_before
                    /\ uq.base_train = ueval.before.base_train

\* C19, amended: eval_coverage_bandwidth on a non-empty test set leaves the
\* scale factor and the stored ratio set as they were, and leaves the base
\* processor in evaluation mode whatever its mode was before.
C19_EvalKeepsCalibration ==
    ueval.called => /\ uq.scale_factor = ueval.before.scale_factor
                    /\ val_ratios = ueval.ratios_before
                    /\ ~uq.base_train

\* the routine ran on a calibrated processor with a stored ratio set whose
\* base processor was in training mode
C19_Witness ==
    /\ ueval.called
    /\ ueval.before.scale_factor.set
    /\ ueval.ratios_before.collected
    /\ ueval.before.base_train

\* C20: a zero predicted uncertainty is never divided by silently: no
\* infinite or not-a-number ratio is stored in the calibration ratio set.
C20_NoDegenerateRatioStored ==
    val_ratios.collected =>
        \A i \in DOMAIN val_ratios.ratios :
            \A p \in UqPoints : IsFinite(val_ratios.ratios[i][p])

(***************************************************************************)
(* The calibration loop                                                    *)
(***************************************************************************)
\* the factor one calibration pass computes from a ratio set, on a processor
\* that has never been calibrated
FreshFactor(ratios, alpha_pct, delta_pct) ==
    calibrate(NewProcessor(FALSE), ratios, alpha_pct, delta_pct).factor

\* C21: the ratio set is collected while no scale factor is set and no
\* calibration pass (with its set_scale_factor and its evaluation) changes
\* it; after any sequence of passes the scale factor in force is the one
\* the last pass computes from that ratio set alone, whatever factors the
\* earlier passes set.
C21_RecalibrationIndependent ==
    /\ val_ratios.collected => val_ratios.unscaled
    /\ ucal.ran =>
         /\ val_ratios = ucal.ratios0
         /\ uq.scale_factor =
               IF ucal.ret.err = "none"
               THEN [set |-> TRUE,
                     value |-> FreshFactor(val_ratios.ratios, ucal.alpha, ucal.delta)]
               ELSE ucal.earlier

\* a pass ran on a processor already calibrated by an earlier pass to a
\* factor other than 1, and set a different factor
C21_Witness ==
    /\ ucal.ran
    /\ ucal.ret.err = "none"
    /\ ucal.earlier.set
    /\ IsFinite(ucal.earlier.value)
    /\ ucal.earlier.value # Num(1)
    /\ IsFinite(uq.scale_factor.value)
    /\ uq.scale_factor.value # ucal.earlier.value

\* C25: the summary statistic of every calibration function is its
\* domain_idx-th largest pointwise ratio, counted from 1 at the largest.
C25_DomainIdxthLargest ==
    (ucal.ran /\ Len(ucal.ret.quantiles) > 0 /\ ucal.ret.idx.domain_idx >= 1) =>
        \A i \in DOMAIN val_ratios.ratios :
            ucal.ret.quantiles[i] =
                topk_last(val_ratios.ratios[i], ucal.ret.idx.domain_idx).value

\* C26: the scale factor given to set_scale_factor is the function_idx-th
\* largest of the per-function summary statistics, counted from 1 at the
\* largest.
C26_FunctionIdxthLargest ==
    (ucal.ran /\ ucal.ret.err = "none" /\ ucal.ret.idx.function_idx >= 1) =>
        /\ uq.scale_factor = [set |-> TRUE, value |-> ucal.ret.factor]
        /\ ucal.ret.factor = topk_last(ucal.ret.quantiles, ucal.ret.idx.function_idx).value

(***************************************************************************)
(* RNO.forward, over the direct call and the calls predict has made        *)
(***************************************************************************)
ForwardCalls ==
    { flog[k] : k \in DOMAIN flog } \cup
    (IF fcall.ret.err # "nocall" THEN {fcall} ELSE {})

Returned == { c \in ForwardCalls : c.ret.err = "none" }

\* C22: in residual mode every layer, the last one included, adds its
\* output to the running field (the last layer, whose output is the final
\* state alone, to the final timestep of the running field); in non-residual
\* mode the running field is replaced by the layer's output.
C22_ResidualEveryLayer ==
    \A c \in ForwardCalls :
        \A k \in DOMAIN c.ret.layers :
            LET l == c.ret.layers[k]
            IN  l.x_after =
                   IF ~rno.residual THEN l.pred_x
                   ELSE IF l.i = rno.n_layers - 1
                        THEN FieldAdd(l.x_before[Len(l.x_before)], l.pred_x)
                        ELSE [t \in DOMAIN l.x_before |->
                                 FieldAdd(l.x_before[t], l.pred_x[t])]

C24_PadOnceUnpadOnce ==
    \A c \in Returned :
        LET dp   == rno.domain_padding
            last == c.ret.states[rno.n_layers]
        IN  /\ c.ret.events =
                  <<"lifting">> \o (IF dp # 0 THEN <<"pad">> ELSE <<>>)
                  \o [k \in 1..rno.n_layers |-> "layer"]
                  \o (IF dp # 0 THEN <<"unsqueeze", "unpad", "squeeze">> ELSE <<>>)
                  \o <<"projection">>
            /\ c.ret.padded = (IF dp # 0 THEN pad(lifting(c.x), dp) ELSE lifting(c.x))
            /\ c.ret.h = (IF dp # 0 THEN unpad(<<last>>, dp)[1] ELSE last)
            /\ c.ret.pred = projection(c.ret.h)

\* a call returned from an operator of two layers with padding configured
C24_Witness ==
    \E c \in Returned :
        /\ rno.domain_padding # 0
        /\ rno.n_layers = 2
        /\ Len(c.ret.padded[1]) > Len(c.x[1])
        /\ Len(c.ret.h) = Len(c.x[1])

(***************************************************************************)
(* get_coeff_quantile_idx: the tolerance and the range of the indices      *)
(***************************************************************************)
\* t is lb + (alpha - lb)/3, to the rounding of the arithmetic
ToleranceFormula ==
    /\ 3 * (qcall.ret.t - qcall.ret.lb) <= FromPct(qcall.alpha) - qcall.ret.lb
    /\ FromPct(qcall.alpha) - qcall.ret.lb < 3 * (qcall.ret.t - qcall.ret.lb) + 3

C29_IndicesAreValidRanks ==
    (QuantileCalled /\ qcall.ret.lb <= FromPct(qcall.alpha) /\ qcall.alpha < 100) =>
        /\ 0 <= qcall.ret.domain_idx
        /\ qcall.ret.domain_idx + 1 <= qcall.n_gridpts
        /\ 0 <= qcall.ret.function_idx
        /\ qcall.ret.function_idx + 1 <= qcall.n_samples

(***************************************************************************)
(* UnitGaussianNormalizer                                                  *)
(***************************************************************************)
Statistics(r) == <<r.count, r.mean, r.std>>

\* C28: a normalizer built by the single pass over a generator of at least
\* two samples has the count, mean and unbiased std of the normalizer built
\* from the stacked batch of the same samples, and encode and decode leave
\* the mean and std of a built normalizer as construction made them.
C28_StreamedSameAsBatch ==
    normalizer.built =>
        /\ (normalizer.kind = "generator" /\ Len(normalizer.given) >= 2) =>
              Statistics(normalizer.made) =
                  Statistics(compute_statistics_tensor(normalizer.given))
        /\ Statistics(normalizer) = Statistics(normalizer.made)

(***************************************************************************)
(* RNO.__init__                                                            *)
(***************************************************************************)
\* C30: constructing an RNO with valid arguments raises nothing and gives
\* n_layers layers of width hidden_channels, the first n_layers - 1
\* returning sequences and the last returning the final state alone.
C30_ConstructionCompletes ==
    ctor.called =>
        /\ ctor.ret.err = "none"
        /\ Len(ctor.ret.layers) = ctor.args.n_layers
        /\ \A i \in DOMAIN ctor.ret.layers :
              /\ ctor.ret.layers[i].width = ctor.args.hidden_channels
              /\ ctor.ret.layers[i].return_sequences = (i < ctor.args.n_layers)

====
